---- MODULE Spec2Model ----
(***************************************************************************)
(* Multi-role meeting discussion: ProcessMultiRoleplayMeeting and the      *)
(* per-round goroutine of MultiAgent.Stream                                *)
(* (src/models/multi_roleplay_meeting.go).                                 *)
(*                                                                         *)
(* Two threads of control are modelled: the orchestration thread (pc) and  *)
(* the goroutine started by Stream for one round (gpc).  They meet on the  *)
(* io.Pipe (pipeData, pipeClosed) and on the LogCallbackHandler            *)
(* (Messages, messagesLock, AgentNameMap).  The language model, the        *)
(* meeting store, the configuration and the SSE subscriber are external:   *)
(* their results are nondeterministic choices.                             *)
(*                                                                         *)
(* Texts are ASCII stand-ins of the source's literals:                     *)
(*   SystemRole      the role name of system entries (line 89, 265, 355)   *)
(*   StartContent    the "discussion started" text (line 266)              *)
(*   FailContent     the "no reply for technical reasons" text (line 213)  *)
(***************************************************************************)
EXTENDS Integers, Sequences, FiniteSets, TLC

\* ---------------------------------------------------------------- bounds
MaxRounds == 2
MaxSpecialists == 2
\* at most this many external calls (generation, summary, publish) go wrong
\* in one session
MaxFaults == 2

VARIABLES
    req,                \* MultiRoleplayRequest: Host, Specialists, Rounds
    stream,             \* TRUE iff the stream argument is not nil
    pc,                 \* position of ProcessMultiRoleplayMeeting
    gpc,                \* position of the goroutine of MultiAgent.Stream
    hpc,                \* position inside OnAgentMessage / OnAgentHandoff
    Messages,           \* cb.Messages
    messagesLock,       \* cb.messagesLock is held
    AgentNameMap,       \* cb.AgentNameMap
    round,              \* loop variable of the round loop
    discussionHistory,  \* discussionHistory of ProcessMultiRoleplayMeeting
    roundMessages,      \* the messages argument of Stream
    hostMessages,       \* the window handed to the host's Generate
    currentContext,     \* currentContext of the goroutine
    specialistMessages, \* the window handed to the specialist's Generate
    si,                 \* index of the specialist the range loop is at
    pending,            \* the schema.Message handed to OnAgentMessage
    pipeData,           \* a Write on pw waits for the reader
    pipeClosed,         \* pw.Close() has run
    attempts,           \* calls of stream.Publish, in order, with outcome
    summaryInput,       \* the discussion text handed to the summarizer
    startPos,           \* startPos of the last collectRoundMessages call
    result,             \* what ProcessMultiRoleplayMeeting returned
    response,           \* the MultiRoleplayResponse it returned, if any
    cancelled,          \* ctx is cancelled
    faults,             \* external calls that went wrong so far
    origin,             \* history: per entry of Messages, the turn it is of
    hostFailed,         \* history: rounds whose host Generate failed
    turnLate,           \* history: the current turn began after cancellation
    configFile,         \* what reading the configuration file would give
    config,             \* the package variable config of config.go
    configErr,          \* the package variable configErr
    configOnce,         \* configOnce: "new", "running" or "done"
    cpc,                \* per caller: its position in a configuration call
    cfn,                \* per caller: the function it called
    reads,              \* number of os.ReadFile calls so far
    returns,            \* what the configuration calls returned, in order
    now,                \* the wall clock, in seconds
    mpc,                \* per CreateMeeting request: its position
    meetingID,          \* per CreateMeeting request: its meetingID
    meetings,           \* storage/meetings: the document stored under each ID
    created             \* the 200 responses of CreateMeeting, in order

vars == <<req, stream, pc, gpc, hpc, Messages, messagesLock, AgentNameMap,
          round, discussionHistory, roundMessages, hostMessages,
          currentContext, specialistMessages, si, pending, pipeData,
          pipeClosed, attempts, summaryInput, startPos, result, response,
          cancelled, faults, origin, hostFailed, turnLate,
          configFile, config, configErr, configOnce, cpc, cfn, reads,
          returns, now, mpc, meetingID, meetings, created>>

storeVars == <<now, mpc, meetingID, meetings, created>>

configVars == <<configFile, config, configErr, configOnce, cpc, cfn, reads,
                returns>>

sessionVars == <<req, stream, pc, gpc, hpc, Messages, messagesLock,
                 AgentNameMap, round, discussionHistory, roundMessages,
                 hostMessages, currentContext, specialistMessages, si,
                 pending, pipeData, pipeClosed, attempts, summaryInput,
                 startPos, result, response, cancelled, faults, origin,
                 hostFailed, turnLate>>

\* ------------------------------------------------------------ texts
HostName == "H"
MeetingName == "m"
AllSpecialists == <<"A", "B", "C", "D">>
SystemRole == "SYSTEM"
StartContent == "[discussion started]"
FailContent == "(no reply for technical reasons)"
Blank == " "

\* the text the model returns for `name` in round r
ReplyText(name, r) == name \o "@" \o ToString(r)

\* strings.TrimSpace on the texts of the model
TrimSpace(s) == IF s \in {"", Blank} THEN "" ELSE s

\* fmt.Sprintf of line 224
NoSupplement(name) == "(" \o name \o " has nothing to add)"

\* fmt.Sprintf of line 240
Attributed(name, content) == name \o ": " \o content

\* fmt.Sprintf of line 90
HandoffContent(targetAgent) == "[" \o targetAgent \o " will speak next]"

\* fmt.Sprintf of line 356
SummaryContent(summary) == "[summary] " \o summary

SummaryText == "summary-text"

\* schema.SystemMessage, schema.UserMessage and the Assistant literal
SystemMessage(c) == [Role |-> "system", Content |-> c]
UserMessage(c) == [Role |-> "user", Content |-> c]
AssistantMessage(c) == [Role |-> "assistant", Content |-> c]

DiscussionMessage(role, content, isSystem) ==
    [Role |-> role, Content |-> content, IsSystem |-> isSystem]

\* json.Marshal of a DiscussionMessage: the json tags of lines 29-31
Marshal(m) == [role |-> m.Role, content |-> m.Content, is_system |-> m.IsSystem]


\* ------------------------------------------------- LogCallbackHandler
\* lines 54-65: the entry OnAgentMessage stores for msg
OnAgentMessageEntry(nameMap, msg) ==
    LET roleName == IF msg.Role \in DOMAIN nameMap /\ msg.Role # "system"
                    THEN nameMap[msg.Role]
                    ELSE msg.Role
    IN  DiscussionMessage(roleName, msg.Content, msg.Role = "system")

\* OnAgentHandoffEntry made from the reason of the handoff, not its target
OnAgentHandoffEntryByReason(targetAgent) ==
    DiscussionMessage(SystemRole, HandoffContent("specialist's turn"), TRUE)

\* lines 88-92: the entry OnAgentHandoff stores
OnAgentHandoffEntry(targetAgent) ==
    DiscussionMessage(SystemRole, HandoffContent(targetAgent), TRUE)

\* Publish sending the event a second time
PublishTwice(published, message, ok) ==
    published \o <<[event |-> Marshal(message), ok |-> ok],
                   [event |-> Marshal(message), ok |-> ok]>>

\* lines 70-79, 100-109, 272-276, 362-366: one call of stream.Publish
Publish(published, message, ok) ==
    Append(published, [event |-> Marshal(message), ok |-> ok])

\* ---------------------------------------------------------- MultiAgent
ReverseSeq(s) == [i \in 1..Len(s) |-> s[Len(s) + 1 - i]]

\* NewMultiAgent storing the specialists in the opposite order
NewMultiAgentReversed(host, specialists) ==
    [Host |-> host, Specialists |-> ReverseSeq(specialists)]

\* lines 138-143
NewMultiAgent(host, specialists) ==
    [Host |-> host, Specialists |-> specialists]

\* line 296
multiAgent == NewMultiAgent(req.Host, req.Specialists)

\* ------------------------------------------------- context accumulation
\* lines 382-386: the loop over messages from its i-th entry on, with
\* startPos so far (Go's index i + 1 is the entry's place counted from 1)
RECURSIVE ScanStartPos(_, _, _)
ScanStartPos(messages, i, pos) ==
    IF i > Len(messages) THEN pos
    ELSE ScanStartPos(messages, i + 1, IF messages[i].IsSystem THEN i ELSE pos)

\* StartPos stopping at the first system entry instead of the last
StartPosFirst(messages) ==
    IF \E i \in 1..Len(messages) : messages[i].IsSystem
    THEN CHOOSE i \in 1..Len(messages) :
            /\ messages[i].IsSystem
            /\ \A j \in 1..(i - 1) : ~messages[j].IsSystem
    ELSE 0

\* lines 381-386: startPos, the number of entries before the window
StartPos(messages) == ScanStartPos(messages, 1, 0)

\* collectRoundMessages tagging every entry as another speaker's
collectRoundMessagesAllUser(messages, hostName) ==
    LET first == StartPos(messages) + 1
        kept == SelectSeq(SubSeq(messages, first, Len(messages)),
                          LAMBDA m : ~m.IsSystem)
    IN  [i \in 1..Len(kept) |-> [Role |-> "user", Content |-> kept[i].Content]]

\* lines 376-407
collectRoundMessages(messages, hostName) ==
    LET first == StartPos(messages) + 1
        kept == SelectSeq(SubSeq(messages, first, Len(messages)),
                          LAMBDA m : ~m.IsSystem)
    IN  [i \in 1..Len(kept) |->
            [Role |-> IF kept[i].Role = hostName THEN "assistant" ELSE "user",
             Content |-> kept[i].Content]]

\* lines 304-326: the messages a round hands to Stream
RoundMessages(r, hostName, history) ==
    <<SystemMessage("round-system-prompt:" \o hostName),
      UserMessage(IF r = 0 THEN "host-prompt-first" ELSE "host-prompt-next")>>
    \o history

\* lines 154-156
HostMessages(messages) ==
    <<SystemMessage("host-system-prompt")>> \o messages

\* lines 185-198
SpecialistMessages(name, context) ==
    <<SystemMessage("specialist-system-prompt:" \o name)>>
    \o context
    \o <<UserMessage("invite:" \o name)>>

\* SummaryInput without the test of IsSystem
SummaryInputUnfiltered(messages) ==
    [i \in 1..Len(messages) |->
        Attributed(messages[i].Role, messages[i].Content)]

\* lines 627-636: the discussion records handed to the summarizer
SummaryInput(messages) ==
    LET kept == SelectSeq(messages, LAMBDA m : ~m.IsSystem)
    IN  [i \in 1..Len(kept) |-> Attributed(kept[i].Role, kept[i].Content)]

\* ------------------------------------------------- external collaborators
\* ChatModel.Generate (lines 158, 204, 655) with the session's ctx: a
\* cancelled ctx makes the call fail; otherwise it returns a text, a blank
\* text or an error.
GenOutcomes ==
    IF cancelled THEN {"fail"}
    ELSE IF faults < MaxFaults THEN {"ok", "blank", "fail"} ELSE {"ok"}

\* stream.Publish: returns nil or an error
PubOutcomes == IF faults < MaxFaults THEN {TRUE, FALSE} ELSE {TRUE}

GenFault(out) == IF out # "ok" /\ ~cancelled THEN 1 ELSE 0
PubFault(ok) == IF ok THEN 0 ELSE 1

NoMessage == [Role |-> "", Content |-> ""]

\* nil, the response of a session that has not returned one
NoResponse == [Messages |-> <<>>, Summary |-> ""]

\* Response with the text of the summary entry for the summary
ResponseFormatted(messages, summary) ==
    [Messages |-> messages, Summary |-> SummaryContent(summary)]

\* lines 369-372: the MultiRoleplayResponse that is returned
Response(messages, summary) == [Messages |-> messages, Summary |-> summary]

\* --------------------------------------------------------------- config
\* src/models/config.go. The goroutines that call for the configuration
MaxCallers == 2
\* the calls they make in all
MaxCalls == 3

Callers == 1..MaxCallers

\* what os.ReadFile and json.Unmarshal can make of the file: unreadable,
\* not JSON, or the ark object with its two strings
FileStates ==
    {[kind |-> "unreadable", api_key |-> "", model_name |-> ""],
     [kind |-> "malformed", api_key |-> "", model_name |-> ""],
     [kind |-> "json", api_key |-> "", model_name |-> "m1"],
     [kind |-> "json", api_key |-> "k1", model_name |-> "m1"],
     [kind |-> "json", api_key |-> "k2", model_name |-> ""]}

ValidFile == [kind |-> "json", api_key |-> "k1", model_name |-> "m1"]

\* the nil *Config
NilConfig == [APIKey |-> "", ModelName |-> "", nil |-> TRUE]

\* lines 18-22: the package variables at process start
ConfigStart ==
    /\ configFile = ValidFile
    /\ config = NilConfig
    /\ configErr = ""
    /\ configOnce = "new"
    /\ cpc = [p \in Callers |-> "idle"]
    /\ cfn = [p \in Callers |-> "none"]
    /\ reads = 0
    /\ returns = <<>>

\* ------------------------------------------------------- meeting store
\* src/handlers/meeting.go, CreateMeeting. The requests that arrive
MaxRequests == 2
\* the seconds the clock runs through
MaxTime == 2

Requests == 1..MaxRequests

\* no request has arrived and storage/meetings is empty
StoreStart ==
    /\ now = 0
    /\ mpc = [r \in Requests |-> "idle"]
    /\ meetingID = [r \in Requests |-> ""]
    /\ meetings = <<>>
    /\ created = <<>>

\* ----------------------------------------------------------------- Init
Init ==
    /\ \E R \in 1..MaxRounds, K \in 1..MaxSpecialists :
          req = [MeetingID |-> MeetingName,
                 Host |-> HostName,
                 Specialists |-> SubSeq(AllSpecialists, 1, K),
                 Rounds |-> R]
    /\ stream \in BOOLEAN
    /\ pc = "entry"
    /\ gpc = "idle"
    /\ hpc = "idle"
    /\ Messages = <<>>
    /\ messagesLock = FALSE
    /\ AgentNameMap = <<>>
    /\ round = 0
    /\ discussionHistory = <<>>
    /\ roundMessages = <<>>
    /\ hostMessages = <<>>
    /\ currentContext = <<>>
    /\ specialistMessages = <<>>
    /\ si = 0
    /\ pending = NoMessage
    /\ pipeData = FALSE
    /\ pipeClosed = FALSE
    /\ attempts = <<>>
    /\ summaryInput = <<>>
    /\ startPos = 0
    /\ result = "none"
    /\ response = NoResponse
    /\ cancelled = FALSE
    /\ faults = 0
    /\ origin = <<>>
    /\ hostFailed = {}
    /\ turnLate = FALSE
    /\ ConfigStart
    /\ StoreStart

goroutineVars == <<gpc, hpc, messagesLock, AgentNameMap, hostMessages,
                   currentContext, specialistMessages, si, pending,
                   hostFailed, turnLate>>
mainVars == <<pc, round, discussionHistory, roundMessages, summaryInput,
              startPos, result, response>>

Origin(kind, r, k, late) == [kind |-> kind, round |-> r, k |-> k, late |-> late]


\* ------------------------------------------ ProcessMultiRoleplayMeeting
\* GetMeetingContent with a session that goes on after a failed lookup
GetMeetingContentUnchecked ==
    /\ pc = "entry"
    /\ pc' = "start"
    /\ \E found \in BOOLEAN :
          result' = IF found THEN result ELSE "error: meeting not found"
    /\ UNCHANGED <<configVars, storeVars, req, stream, startPos, response, goroutineVars, Messages, round,
                   discussionHistory, roundMessages, pipeData, pipeClosed,
                   attempts, summaryInput, cancelled, faults, origin>>

\* lines 250-254: getMeetingContent
GetMeetingContent ==
    /\ pc = "entry"
    /\ \E found \in BOOLEAN :
          IF found
          THEN pc' = "start" /\ result' = result
          ELSE pc' = "error" /\ result' = "error: meeting not found"
    /\ UNCHANGED <<configVars, storeVars, req, stream, startPos, response, goroutineVars, Messages, round,
                   discussionHistory, roundMessages, pipeData, pipeClosed,
                   attempts, summaryInput, cancelled, faults, origin>>

\* lines 256-277: the handler is built, the start entry stored and published
AppendStart ==
    /\ pc = "start"
    /\ LET startMsg == DiscussionMessage(SystemRole, StartContent, TRUE)
       IN  /\ Messages' = Append(Messages, startMsg)
           /\ origin' = Append(origin, Origin("start", 0, 0, cancelled))
           /\ IF stream
              THEN \E ok \in PubOutcomes :
                      /\ attempts' = Publish(attempts, startMsg, ok)
                      /\ faults' = faults + PubFault(ok)
              ELSE UNCHANGED <<attempts, faults>>
    /\ AgentNameMap' = <<>>
    /\ pc' = "agents"
    /\ UNCHANGED <<configVars, storeVars, req, stream, startPos, gpc, hpc, messagesLock, hostMessages,
                   currentContext, specialistMessages, si, pending,
                   hostFailed, turnLate, round, discussionHistory,
                   roundMessages, summaryInput, result, response, pipeData,
                   pipeClosed, cancelled>>

\* lines 279-299: newHost, newSpecialist (they fail when the configuration
\* or the chat model cannot be had), NewMultiAgent, the empty history
NewAgents ==
    /\ pc = "agents"
    /\ \E configured \in BOOLEAN :
          IF configured
          THEN /\ pc' = "round"
               /\ round' = 0
               /\ discussionHistory' = <<>>
               /\ result' = result
          ELSE /\ pc' = "error"
               /\ result' = "error: agent not created"
               /\ UNCHANGED <<round, discussionHistory>>
    /\ UNCHANGED <<configVars, storeVars, req, stream, startPos, response, goroutineVars, Messages, roundMessages,
                   pipeData, pipeClosed, attempts, summaryInput, cancelled,
                   faults, origin>>

\* lines 302-329 and 148-150: the round's messages are built and Stream
\* starts the goroutine and returns the read end of the pipe
StartRound ==
    /\ pc = "round"
    /\ round < req.Rounds
    /\ roundMessages' = RoundMessages(round, req.Host, discussionHistory)
    /\ gpc' = "hostGen"
    /\ pipeData' = FALSE
    /\ pipeClosed' = FALSE
    /\ pc' = "drain"
    /\ UNCHANGED <<configVars, storeVars, req, stream, startPos, hpc, Messages, messagesLock, AgentNameMap,
                   round, discussionHistory, hostMessages, currentContext,
                   specialistMessages, si, pending, attempts, summaryInput,
                   result, response, cancelled, faults, origin, hostFailed,
                   turnLate>>

\* DrainRead with an orchestrator that takes what the goroutine wrote to
\* the pipe for the round's failure
DrainReadFails ==
    /\ pc = "drain"
    /\ pipeData
    /\ pipeData' = FALSE
    /\ pc' = "error"
    /\ result' = "error: round failed"
    /\ UNCHANGED <<configVars, storeVars, req, stream, response, goroutineVars, round,
                   discussionHistory,
                   roundMessages, summaryInput, startPos, Messages,
                   pipeClosed, attempts, cancelled, faults, origin>>

\* line 335: io.Copy takes what a Write of the goroutine offers
DrainRead ==
    /\ pc = "drain"
    /\ pipeData
    /\ pipeData' = FALSE
    /\ UNCHANGED <<configVars, storeVars, req, stream, goroutineVars, mainVars, Messages, pipeClosed,
                   attempts, cancelled, faults, origin>>

\* DrainDone with a copy that returns as soon as nothing is left to read,
\* whether or not the pipe is closed
DrainDoneEarly ==
    /\ pc = "drain"
    /\ ~pipeData
    /\ IF round = req.Rounds - 1
       THEN /\ pc' = "summary"
            /\ UNCHANGED <<round, discussionHistory, startPos>>
       ELSE /\ discussionHistory' = collectRoundMessages(Messages, req.Host)
            /\ startPos' = StartPos(Messages)
            /\ round' = round + 1
            /\ pc' = "round"
    /\ UNCHANGED <<configVars, storeVars, req, stream, gpc, hpc, Messages, messagesLock,
                   AgentNameMap, roundMessages, hostMessages, currentContext,
                   specialistMessages, si, pending, pipeData, pipeClosed,
                   attempts, summaryInput, result, response, cancelled,
                   faults, origin,
                   hostFailed, turnLate>>

\* lines 335-345: io.Copy returns at the pipe's end; the last round leaves
\* the loop, any other round collects the history of the next
DrainDone ==
    /\ pc = "drain"
    /\ pipeClosed
    /\ ~pipeData
    /\ gpc' = "idle"
    /\ IF round = req.Rounds - 1
       THEN /\ pc' = "summary"
            /\ UNCHANGED <<round, discussionHistory, startPos>>
       ELSE /\ discussionHistory' = collectRoundMessages(Messages, req.Host)
            /\ startPos' = StartPos(Messages)
            /\ round' = round + 1
            /\ pc' = "round"
    /\ UNCHANGED <<configVars, storeVars, req, stream, hpc, Messages, messagesLock, AgentNameMap,
                   roundMessages, hostMessages, currentContext,
                   specialistMessages, si, pending, pipeData, pipeClosed,
                   attempts, summaryInput, result, response, cancelled,
                   faults, origin,
                   hostFailed, turnLate>>

\* lines 347-372 and 603-661: the summarizer is called; its text is stored
\* and published as the summary entry and the response returned
GenerateSummary ==
    /\ pc = "summary"
    /\ summaryInput' = SummaryInput(Messages)
    /\ \E out \in GenOutcomes \ {"blank"} :
          IF out = "fail"
          THEN /\ pc' = "error"
               /\ result' = "error: summary not generated"
               /\ faults' = faults + GenFault(out)
               /\ UNCHANGED <<Messages, origin, attempts, response>>
          ELSE LET summary == SummaryText
                   summaryMsg ==
                       DiscussionMessage(SystemRole, SummaryContent(summary), TRUE)
               IN  /\ Messages' = Append(Messages, summaryMsg)
                   /\ response' = Response(Messages', summary)
                   /\ origin' = Append(origin, Origin("summary", round, 0, cancelled))
                   /\ IF stream
                      THEN \E ok \in PubOutcomes :
                              /\ attempts' = Publish(attempts, summaryMsg, ok)
                              /\ faults' = faults + PubFault(ok)
                      ELSE UNCHANGED <<attempts, faults>>
                   /\ pc' = "done"
                   /\ result' = "response"
    /\ UNCHANGED <<configVars, storeVars, req, stream, startPos, goroutineVars, round,
                   discussionHistory, roundMessages, pipeData, pipeClosed,
                   cancelled>>


\* ------------------------------------------- goroutine of MultiAgent.Stream
\* the text a Generate call returned, by outcome
Generated(name, out) == IF out = "blank" THEN Blank ELSE ReplyText(name, round)

\* the loop of line 180 moves to specialist i, or ends and the deferred
\* pw.Close() of line 151 runs
LoopTo(i) ==
    /\ si' = i
    /\ IF i <= Len(multiAgent.Specialists)
       THEN gpc' = "handoff" /\ pipeClosed' = pipeClosed
       ELSE gpc' = "exit" /\ pipeClosed' = TRUE

\* HostGenerate without the assignment to the name map of line 171
HostGenerateUnmapped ==
    /\ gpc = "hostGen"
    /\ hostMessages' = HostMessages(roundMessages)
    /\ turnLate' = cancelled
    /\ \E out \in GenOutcomes :
          /\ faults' = faults + GenFault(out)
          /\ IF out = "fail"
             THEN /\ pipeData' = TRUE
                  /\ gpc' = "hostErr"
                  /\ hostFailed' = hostFailed \cup {round}
                  /\ UNCHANGED <<pending>>
             ELSE /\ pending' = AssistantMessage(Generated(multiAgent.Host, out))
                  /\ gpc' = "hostMsg"
                  /\ UNCHANGED <<pipeData, hostFailed>>
    /\ UNCHANGED <<configVars, storeVars, req, stream, mainVars, hpc, Messages, messagesLock,
                   AgentNameMap, currentContext, specialistMessages, si,
                   pipeClosed, attempts, cancelled, origin>>

\* lines 153-171: the host is asked; an error is written to the pipe, a
\* reply becomes hostMsg and the host's name is put in the name map
HostGenerate ==
    /\ gpc = "hostGen"
    /\ hostMessages' = HostMessages(roundMessages)
    /\ turnLate' = cancelled
    /\ \E out \in GenOutcomes :
          /\ faults' = faults + GenFault(out)
          /\ IF out = "fail"
             THEN /\ pipeData' = TRUE
                  /\ gpc' = "hostErr"
                  /\ hostFailed' = hostFailed \cup {round}
                  /\ UNCHANGED <<pending, AgentNameMap>>
             ELSE /\ pending' = AssistantMessage(Generated(multiAgent.Host, out))
                  /\ AgentNameMap' = ("assistant" :> multiAgent.Host) @@ AgentNameMap
                  /\ gpc' = "hostMsg"
                  /\ UNCHANGED <<pipeData, hostFailed>>
    /\ UNCHANGED <<configVars, storeVars, req, stream, mainVars, hpc, Messages, messagesLock,
                   currentContext, specialistMessages, si, pipeClosed,
                   attempts, cancelled, origin>>

\* HostErrorReturn without the deferred pw.Close() of line 151
HostErrorReturnUnclosed ==
    /\ gpc = "hostErr"
    /\ ~pipeData
    /\ gpc' = "exit"
    /\ UNCHANGED <<configVars, storeVars, req, stream, mainVars, hpc, Messages, messagesLock,
                   AgentNameMap, hostMessages, currentContext,
                   specialistMessages, si, pending, pipeData, pipeClosed,
                   attempts, cancelled, faults, origin, hostFailed, turnLate>>

\* lines 160-161 and 151: the Write returns once read; the goroutine
\* returns and the pipe is closed
HostErrorReturn ==
    /\ gpc = "hostErr"
    /\ ~pipeData
    /\ gpc' = "exit"
    /\ pipeClosed' = TRUE
    /\ UNCHANGED <<configVars, storeVars, req, stream, mainVars, hpc, Messages, messagesLock,
                   AgentNameMap, hostMessages, currentContext,
                   specialistMessages, si, pending, pipeData, attempts,
                   cancelled, faults, origin, hostFailed, turnLate>>

\* the kind of entry OnAgentMessage stores at each of its three call sites
MessageSites == {"hostMsg", "failMsg", "specMsg"}
SiteKind(site) == IF site = "hostMsg" THEN "host" ELSE "spec"
SiteK(site) == IF site = "hostMsg" THEN 0 ELSE si

\* lines 48-66: OnAgentMessage takes the lock and stores the entry
OnAgentMessageStore ==
    /\ gpc \in MessageSites
    /\ hpc = "idle"
    /\ ~messagesLock
    /\ messagesLock' = TRUE
    /\ Messages' = Append(Messages, OnAgentMessageEntry(AgentNameMap, pending))
    /\ origin' = Append(origin, Origin(SiteKind(gpc), round, SiteK(gpc), turnLate))
    /\ hpc' = "stored"
    /\ UNCHANGED <<configVars, storeVars, req, stream, mainVars, gpc, AgentNameMap, hostMessages,
                   currentContext, specialistMessages, si, pending, pipeData,
                   pipeClosed, attempts, cancelled, faults, hostFailed,
                   turnLate>>

\* what the goroutine does with the handler's return (the returned error is
\* dropped at lines 174, 217 and 234):
\*   line 177       after the host's entry, the context gets hostMsg
\*   line 218       after a fallback entry, continue
\*   lines 237-241  after a reply, the context gets "name: content"
AfterMessage ==
    /\ currentContext' =
          CASE gpc = "hostMsg" -> Append(roundMessages, pending)
            [] gpc = "failMsg" -> currentContext
            [] gpc = "specMsg" ->
                 Append(currentContext,
                        UserMessage(Attributed(multiAgent.Specialists[si],
                                               pending.Content)))
    /\ LoopTo(IF gpc = "hostMsg" THEN 1 ELSE si + 1)

\* OnAgentMessagePublish with a caller that returns on the handler's error
OnAgentMessagePublishAbort ==
    /\ gpc \in MessageSites
    /\ hpc = "stored"
    /\ messagesLock' = FALSE
    /\ hpc' = "idle"
    /\ IF stream
       THEN \E ok \in PubOutcomes :
               /\ attempts' = Publish(attempts, Messages[Len(Messages)], ok)
               /\ faults' = faults + PubFault(ok)
               /\ IF ok
                  THEN AfterMessage
                  ELSE /\ gpc' = "exit"
                       /\ pipeClosed' = TRUE
                       /\ UNCHANGED <<currentContext, si>>
       ELSE UNCHANGED <<attempts, faults>> /\ AfterMessage
    /\ UNCHANGED <<configVars, storeVars, req, stream, mainVars, Messages, AgentNameMap,
                   hostMessages, specialistMessages, pending, pipeData,
                   cancelled, origin, hostFailed, turnLate>>

\* lines 68-84: the event is published if there is a stream, the lock is
\* released on return, and the caller goes on
OnAgentMessagePublish ==
    /\ gpc \in MessageSites
    /\ hpc = "stored"
    /\ IF stream
       THEN \E ok \in PubOutcomes :
               /\ attempts' = Publish(attempts, Messages[Len(Messages)], ok)
               /\ faults' = faults + PubFault(ok)
       ELSE UNCHANGED <<attempts, faults>>
    /\ messagesLock' = FALSE
    /\ hpc' = "idle"
    /\ AfterMessage
    /\ UNCHANGED <<configVars, storeVars, req, stream, mainVars, Messages, AgentNameMap,
                   hostMessages, specialistMessages, pending, pipeData,
                   cancelled, origin, hostFailed, turnLate>>

\* OnAgentHandoffStore writing the handoff entry over the last entry
OnAgentHandoffStoreOverwrite ==
    /\ gpc = "handoff"
    /\ hpc = "idle"
    /\ ~messagesLock
    /\ messagesLock' = TRUE
    /\ Messages' = [Messages EXCEPT ![Len(Messages)] =
                       OnAgentHandoffEntry(multiAgent.Specialists[si])]
    /\ turnLate' = cancelled
    /\ origin' = [origin EXCEPT ![Len(origin)] =
                     Origin("handoff", round, si, cancelled)]
    /\ hpc' = "stored"
    /\ UNCHANGED <<configVars, storeVars, req, stream, mainVars, gpc, AgentNameMap, hostMessages,
                   currentContext, specialistMessages, si, pending, pipeData,
                   pipeClosed, attempts, cancelled, faults, hostFailed>>

\* lines 182 and 87-96: OnAgentHandoff takes the lock and stores the entry
OnAgentHandoffStore ==
    /\ gpc = "handoff"
    /\ hpc = "idle"
    /\ ~messagesLock
    /\ messagesLock' = TRUE
    /\ Messages' = Append(Messages, OnAgentHandoffEntry(multiAgent.Specialists[si]))
    /\ turnLate' = cancelled
    /\ origin' = Append(origin, Origin("handoff", round, si, cancelled))
    /\ hpc' = "stored"
    /\ UNCHANGED <<configVars, storeVars, req, stream, mainVars, gpc, AgentNameMap, hostMessages,
                   currentContext, specialistMessages, si, pending, pipeData,
                   pipeClosed, attempts, cancelled, faults, hostFailed>>

\* OnAgentHandoffPublish without the Publish of lines 98-112
OnAgentHandoffUnpublished ==
    /\ gpc = "handoff"
    /\ hpc = "stored"
    /\ messagesLock' = FALSE
    /\ hpc' = "idle"
    /\ specialistMessages' =
          SpecialistMessages(multiAgent.Specialists[si], currentContext)
    /\ AgentNameMap' = ("assistant" :> multiAgent.Specialists[si]) @@ AgentNameMap
    /\ gpc' = "specGen"
    /\ UNCHANGED <<configVars, storeVars, req, stream, mainVars, Messages, hostMessages,
                   currentContext, si, pending, pipeData, pipeClosed,
                   cancelled, origin, hostFailed, turnLate, attempts, faults>>

\* lines 98-114 and 184-201: the handoff event is published, the lock
\* released; the specialist's messages are built and its name mapped
OnAgentHandoffPublish ==
    /\ gpc = "handoff"
    /\ hpc = "stored"
    /\ IF stream
       THEN \E ok \in PubOutcomes :
               /\ attempts' = Publish(attempts, Messages[Len(Messages)], ok)
               /\ faults' = faults + PubFault(ok)
       ELSE UNCHANGED <<attempts, faults>>
    /\ messagesLock' = FALSE
    /\ hpc' = "idle"
    /\ specialistMessages' =
          SpecialistMessages(multiAgent.Specialists[si], currentContext)
    /\ AgentNameMap' = ("assistant" :> multiAgent.Specialists[si]) @@ AgentNameMap
    /\ gpc' = "specGen"
    /\ UNCHANGED <<configVars, storeVars, req, stream, mainVars, Messages, hostMessages,
                   currentContext, si, pending, pipeData, pipeClosed,
                   cancelled, origin, hostFailed, turnLate>>

\* lines 203-231: the specialist is asked; an error is written to the pipe
\* and the fallback message made, a blank reply is replaced
SpecialistGenerate ==
    /\ gpc = "specGen"
    /\ \E out \in GenOutcomes :
          /\ faults' = faults + GenFault(out)
          /\ IF out = "fail"
             THEN /\ pipeData' = TRUE
                  /\ pending' = AssistantMessage(FailContent)
                  /\ gpc' = "specErr"
             ELSE LET name == multiAgent.Specialists[si]
                      content == Generated(name, out)
                  IN  /\ pending' = AssistantMessage(
                                       IF TrimSpace(content) = ""
                                       THEN NoSupplement(name)
                                       ELSE content)
                      /\ gpc' = "specMsg"
                      /\ pipeData' = pipeData
    /\ UNCHANGED <<configVars, storeVars, req, stream, mainVars, hpc, Messages, messagesLock,
                   AgentNameMap, hostMessages, currentContext,
                   specialistMessages, si, pipeClosed, attempts, cancelled,
                   origin, hostFailed, turnLate>>

\* SpecialistErrorWritten without the fallback entry of lines 210-217
SpecialistErrorSkipped ==
    /\ gpc = "specErr"
    /\ ~pipeData
    /\ LoopTo(si + 1)
    /\ UNCHANGED <<configVars, storeVars, req, stream, mainVars, hpc, Messages, messagesLock,
                   AgentNameMap, hostMessages, currentContext,
                   specialistMessages, pending, pipeData, attempts,
                   cancelled, faults, origin, hostFailed, turnLate>>

\* SpecialistErrorWritten closing the pipe in the error branch, before the
\* fallback is recorded
SpecialistErrorClosed ==
    /\ gpc = "specErr"
    /\ ~pipeData
    /\ gpc' = "failMsg"
    /\ pipeClosed' = TRUE
    /\ UNCHANGED <<configVars, storeVars, req, stream, mainVars, hpc, Messages, messagesLock,
                   AgentNameMap, hostMessages, currentContext,
                   specialistMessages, si, pending, pipeData,
                   attempts, cancelled, faults, origin, hostFailed, turnLate>>

\* lines 208-217: the Write returns once read; the fallback is recorded
SpecialistErrorWritten ==
    /\ gpc = "specErr"
    /\ ~pipeData
    /\ gpc' = "failMsg"
    /\ UNCHANGED <<configVars, storeVars, req, stream, mainVars, hpc, Messages, messagesLock,
                   AgentNameMap, hostMessages, currentContext,
                   specialistMessages, si, pending, pipeData, pipeClosed,
                   attempts, cancelled, faults, origin, hostFailed, turnLate>>

\* the session's ctx is cancelled (the caller went away, a deadline passed)
Cancel ==
    /\ ~cancelled
    /\ pc \notin {"done", "error"}
    /\ cancelled' = TRUE
    /\ UNCHANGED <<configVars, storeVars, req, stream, goroutineVars, mainVars, Messages, pipeData,
                   pipeClosed, attempts, faults, origin>>

Next ==
    \/ GetMeetingContent
    \/ AppendStart
    \/ NewAgents
    \/ StartRound
    \/ DrainRead
    \/ DrainDone
    \/ GenerateSummary
    \/ HostGenerate
    \/ HostErrorReturn
    \/ OnAgentMessageStore
    \/ OnAgentMessagePublish
    \/ OnAgentHandoffStore
    \/ OnAgentHandoffPublish
    \/ SpecialistGenerate
    \/ SpecialistErrorWritten

Spec == Init /\ [][Next]_vars

\* ------------------------------------------------------------- handlers
\* src/handlers/meeting.go:747 and :787, the rounds of a request that
\* names none
DefaultRounds == 3

BadRequest(why) == "400: " \o why

\* the request as it arrives at one of the two routes: any field may be
\* empty; stream tells the route (TRUE: the streaming one)
InitHandlers ==
    /\ \E id \in {"", MeetingName}, host \in {"", HostName},
          R0 \in 0..MaxRounds, K0 \in 0..MaxSpecialists :
          req = [MeetingID |-> id,
                 Host |-> host,
                 Specialists |-> SubSeq(AllSpecialists, 1, K0),
                 Rounds |-> R0]
    /\ stream \in BOOLEAN
    /\ pc = "handler"
    /\ gpc = "idle"
    /\ hpc = "idle"
    /\ Messages = <<>>
    /\ messagesLock = FALSE
    /\ AgentNameMap = <<>>
    /\ round = 0
    /\ discussionHistory = <<>>
    /\ roundMessages = <<>>
    /\ hostMessages = <<>>
    /\ currentContext = <<>>
    /\ specialistMessages = <<>>
    /\ si = 0
    /\ pending = NoMessage
    /\ pipeData = FALSE
    /\ pipeClosed = FALSE
    /\ attempts = <<>>
    /\ summaryInput = <<>>
    /\ startPos = 0
    /\ result = "none"
    /\ response = NoResponse
    /\ cancelled = FALSE
    /\ faults = 0
    /\ origin = <<>>
    /\ hostFailed = {}
    /\ turnLate = FALSE
    /\ ConfigStart
    /\ StoreStart

\* HandleMultiRoleplayMeeting: the body is bound and validated, Rounds
\* defaulted, and PerformMultiRoleplayMeeting called
HandleMultiRoleplayMeeting ==
    /\ pc = "handler"
    /\ ~stream
    /\ \E bound \in BOOLEAN :
          IF ~bound
          THEN pc' = "rejected" /\ result' = BadRequest("body") /\ req' = req
          ELSE IF req.MeetingID = ""
          THEN pc' = "rejected" /\ result' = BadRequest("meeting_id")
               /\ req' = req
          ELSE IF req.Host = ""
          THEN pc' = "rejected" /\ result' = BadRequest("host") /\ req' = req
          ELSE IF Len(req.Specialists) = 0
          THEN pc' = "rejected" /\ result' = BadRequest("specialists")
               /\ req' = req
          ELSE /\ req' = [req EXCEPT
                             !.Rounds = IF @ <= 0 THEN DefaultRounds ELSE @]
               /\ pc' = "entry"
               /\ result' = result
    /\ UNCHANGED <<configVars, storeVars, stream, response, goroutineVars, Messages, round,
                   discussionHistory,
                   roundMessages, summaryInput, startPos, pipeData,
                   pipeClosed, attempts, cancelled, faults, origin>>

\* HandleStreamMultiRoleplayMeeting without the check of the specialists
HandleStreamMultiRoleplayMeetingAnyList ==
    /\ pc = "handler"
    /\ stream
    /\ \E bound \in BOOLEAN :
          IF ~bound
          THEN pc' = "rejected" /\ result' = BadRequest("body") /\ req' = req
          ELSE IF req.MeetingID = ""
          THEN pc' = "rejected" /\ result' = BadRequest("meeting_id")
               /\ req' = req
          ELSE IF req.Host = ""
          THEN pc' = "rejected" /\ result' = BadRequest("host") /\ req' = req
          ELSE /\ req' = [req EXCEPT
                             !.Rounds = IF @ <= 0 THEN DefaultRounds ELSE @]
               /\ pc' = "entry"
               /\ result' = result
    /\ UNCHANGED <<configVars, storeVars, stream, response, goroutineVars, Messages, round,
                   discussionHistory,
                   roundMessages, summaryInput, startPos, pipeData,
                   pipeClosed, attempts, cancelled, faults, origin>>

\* HandleStreamMultiRoleplayMeeting: the same validation, then the SSE
\* stream is made and StreamMultiRoleplayMeeting called
HandleStreamMultiRoleplayMeeting ==
    /\ pc = "handler"
    /\ stream
    /\ \E bound \in BOOLEAN :
          IF ~bound
          THEN pc' = "rejected" /\ result' = BadRequest("body") /\ req' = req
          ELSE IF req.MeetingID = ""
          THEN pc' = "rejected" /\ result' = BadRequest("meeting_id")
               /\ req' = req
          ELSE IF req.Host = ""
          THEN pc' = "rejected" /\ result' = BadRequest("host") /\ req' = req
          ELSE IF Len(req.Specialists) = 0
          THEN pc' = "rejected" /\ result' = BadRequest("specialists")
               /\ req' = req
          ELSE /\ req' = [req EXCEPT
                             !.Rounds = IF @ <= 0 THEN DefaultRounds ELSE @]
               /\ pc' = "entry"
               /\ result' = result
    /\ UNCHANGED <<configVars, storeVars, stream, response, goroutineVars, Messages, round,
                   discussionHistory,
                   roundMessages, summaryInput, startPos, pipeData,
                   pipeClosed, attempts, cancelled, faults, origin>>

NextHandlers ==
    \/ HandleMultiRoleplayMeeting
    \/ HandleStreamMultiRoleplayMeeting
    \/ Next

SpecHandlers == InitHandlers /\ [][NextHandlers]_vars

\* ------------------------------------------------- collectRoundMessages
\* the longest transcript the function is applied to
MaxLen == 4

\* entries as the handler stores them: the start entry, a handoff, a reply
\* of the host, a reply of a specialist and a specialist's fallback
CollectEntries ==
    {DiscussionMessage(SystemRole, StartContent, TRUE),
     OnAgentHandoffEntry(AllSpecialists[1]),
     DiscussionMessage(HostName, ReplyText(HostName, 0), FALSE),
     DiscussionMessage(AllSpecialists[1], ReplyText(AllSpecialists[1], 0),
                       FALSE),
     DiscussionMessage(AllSpecialists[1], FailContent, FALSE)}

\* collectRoundMessages is about to be called on some transcript
InitCollect ==
    /\ req = [MeetingID |-> MeetingName,
              Host |-> HostName,
              Specialists |-> SubSeq(AllSpecialists, 1, 1),
              Rounds |-> 1]
    /\ Messages \in UNION {[1..n -> CollectEntries] : n \in 0..MaxLen}
    /\ stream = FALSE
    /\ pc = "collect"
    /\ gpc = "idle"
    /\ hpc = "idle"
    /\ messagesLock = FALSE
    /\ AgentNameMap = <<>>
    /\ round = 0
    /\ discussionHistory = <<>>
    /\ roundMessages = <<>>
    /\ hostMessages = <<>>
    /\ currentContext = <<>>
    /\ specialistMessages = <<>>
    /\ si = 0
    /\ pending = NoMessage
    /\ pipeData = FALSE
    /\ pipeClosed = FALSE
    /\ attempts = <<>>
    /\ summaryInput = <<>>
    /\ startPos = 0
    /\ result = "none"
    /\ response = NoResponse
    /\ cancelled = FALSE
    /\ faults = 0
    /\ origin = <<>>
    /\ hostFailed = {}
    /\ turnLate = FALSE
    /\ ConfigStart
    /\ StoreStart

\* line 344 and lines 376-407: the call and what it returns
CollectRound ==
    /\ pc = "collect"
    /\ discussionHistory' = collectRoundMessages(Messages, req.Host)
    /\ startPos' = StartPos(Messages)
    /\ pc' = "collected"
    /\ UNCHANGED <<configVars, storeVars, req, stream, goroutineVars, Messages, round,
                   roundMessages, summaryInput, result, response, pipeData,
                   pipeClosed, attempts, cancelled, faults, origin>>

NextCollect == CollectRound

SpecCollect == InitCollect /\ [][NextCollect]_vars

\* --------------------------------------------------------- scheduling
\* the steps of the thread that runs ProcessMultiRoleplayMeeting
Orchestrator ==
    \/ GetMeetingContent
    \/ AppendStart
    \/ NewAgents
    \/ StartRound
    \/ DrainRead
    \/ DrainDone
    \/ GenerateSummary

\* the steps of the goroutine of MultiAgent.Stream (line 150)
Goroutine ==
    \/ HostGenerate
    \/ HostErrorReturn
    \/ OnAgentMessageStore
    \/ OnAgentMessagePublish
    \/ OnAgentHandoffStore
    \/ OnAgentHandoffPublish
    \/ SpecialistGenerate
    \/ SpecialistErrorWritten

\* the session when every external call returns and the Go scheduler runs
\* each of the two as long as it can take a step
SpecFair ==
    /\ Init
    /\ [][Next]_vars
    /\ WF_vars(Orchestrator)
    /\ WF_vars(Goroutine)

\* ------------------------------------------------- calls for the config
ConfigFunctions == {"LoadConfig", "GetARKAPIKey", "GetARKModelName"}

\* what a function returns, given the package variables: LoadConfig line
\* 54, GetARKAPIKey lines 59-63, GetARKModelName lines 68-72
Returned(fn, cfg, err) ==
    CASE fn = "LoadConfig" -> [val |-> cfg, err |-> err]
      [] fn = "GetARKAPIKey" ->
           [val |-> IF err # "" THEN "" ELSE cfg.APIKey, err |-> err]
      [] fn = "GetARKModelName" ->
           [val |-> IF err # "" THEN "" ELSE cfg.ModelName, err |-> err]

\* a process that has loaded nothing yet, with some configuration file,
\* and no session under way
InitConfig ==
    /\ req = [MeetingID |-> MeetingName,
              Host |-> HostName,
              Specialists |-> SubSeq(AllSpecialists, 1, 1),
              Rounds |-> 1]
    /\ stream = FALSE
    /\ pc = "config"
    /\ gpc = "idle"
    /\ hpc = "idle"
    /\ Messages = <<>>
    /\ messagesLock = FALSE
    /\ AgentNameMap = <<>>
    /\ round = 0
    /\ discussionHistory = <<>>
    /\ roundMessages = <<>>
    /\ hostMessages = <<>>
    /\ currentContext = <<>>
    /\ specialistMessages = <<>>
    /\ si = 0
    /\ pending = NoMessage
    /\ pipeData = FALSE
    /\ pipeClosed = FALSE
    /\ attempts = <<>>
    /\ summaryInput = <<>>
    /\ startPos = 0
    /\ result = "none"
    /\ response = NoResponse
    /\ cancelled = FALSE
    /\ faults = 0
    /\ origin = <<>>
    /\ hostFailed = {}
    /\ turnLate = FALSE
    /\ configFile \in FileStates
    /\ config = NilConfig
    /\ configErr = ""
    /\ configOnce = "new"
    /\ cpc = [p \in Callers |-> "idle"]
    /\ cfn = [p \in Callers |-> "none"]
    /\ reads = 0
    /\ returns = <<>>
    /\ StoreStart

\* calls begun so far
CallsBegun == Len(returns) + Cardinality({p \in Callers : cpc[p] # "idle"})

\* goroutine p calls one of the three functions
CallConfig(p) ==
    /\ cpc[p] = "idle"
    /\ CallsBegun < MaxCalls
    /\ \E fn \in ConfigFunctions : cfn' = [cfn EXCEPT ![p] = fn]
    /\ cpc' = [cpc EXCEPT ![p] = "do"]
    /\ UNCHANGED <<sessionVars, storeVars, configFile, config, configErr, configOnce,
                   reads, returns>>

\* ConfigOnceDo running the function again when the load before it failed
ConfigOnceDoRetry(p) ==
    /\ cpc[p] = "do"
    /\ configOnce # "running"
    /\ IF configOnce = "done" /\ configErr = ""
       THEN /\ cpc' = [cpc EXCEPT ![p] = "ret"]
            /\ UNCHANGED configOnce
       ELSE /\ configOnce' = "running"
            /\ cpc' = [cpc EXCEPT ![p] = "load"]
    /\ UNCHANGED <<sessionVars, storeVars, configFile, config, configErr, cfn, reads,
                   returns>>

\* line 26, configOnce.Do: the first caller runs the function, a caller
\* that comes while it runs waits, a caller that comes after returns
ConfigOnceDo(p) ==
    /\ cpc[p] = "do"
    /\ configOnce # "running"
    /\ IF configOnce = "done"
       THEN /\ cpc' = [cpc EXCEPT ![p] = "ret"]
            /\ UNCHANGED configOnce
       ELSE /\ configOnce' = "running"
            /\ cpc' = [cpc EXCEPT ![p] = "load"]
    /\ UNCHANGED <<sessionVars, storeVars, configFile, config, configErr, cfn, reads,
                   returns>>

\* lines 27-51: the file is read and parsed, the key checked
LoadConfigRead(p) ==
    /\ cpc[p] = "load"
    /\ reads' = reads + 1
    /\ IF configFile.kind = "unreadable"
       THEN configErr' = "read failed" /\ UNCHANGED config
       ELSE IF configFile.kind = "malformed"
       THEN configErr' = "parse failed" /\ UNCHANGED config
       ELSE IF configFile.api_key = ""
       THEN configErr' = "no api key" /\ UNCHANGED config
       ELSE /\ config' = [APIKey |-> configFile.api_key,
                          ModelName |-> configFile.model_name,
                          nil |-> FALSE]
            /\ UNCHANGED configErr
    /\ cpc' = [cpc EXCEPT ![p] = "loaded"]
    /\ UNCHANGED <<sessionVars, storeVars, configFile, configOnce, cfn, returns>>

\* line 52: the function returns and Do marks the Once done
ConfigOnceDone(p) ==
    /\ cpc[p] = "loaded"
    /\ configOnce' = "done"
    /\ cpc' = [cpc EXCEPT ![p] = "ret"]
    /\ UNCHANGED <<sessionVars, storeVars, configFile, config, configErr, cfn, reads,
                   returns>>

\* lines 54, 59-63, 68-72: the call returns
ConfigReturn(p) ==
    /\ cpc[p] = "ret"
    /\ returns' = Append(returns, [p |-> p, fn |-> cfn[p],
                                   ret |-> Returned(cfn[p], config, configErr)])
    /\ cpc' = [cpc EXCEPT ![p] = "idle"]
    /\ UNCHANGED <<sessionVars, storeVars, configFile, config, configErr, configOnce,
                   cfn, reads>>

\* somebody edits, removes or restores the configuration file
ConfigFileChanges ==
    /\ \E f \in FileStates \ {configFile} : configFile' = f
    /\ UNCHANGED <<sessionVars, storeVars, config, configErr, configOnce, cpc, cfn,
                   reads, returns>>

NextConfig ==
    \/ \E p \in Callers : CallConfig(p)
    \/ \E p \in Callers : ConfigOnceDo(p)
    \/ \E p \in Callers : LoadConfigRead(p)
    \/ \E p \in Callers : ConfigOnceDone(p)
    \/ \E p \in Callers : ConfigReturn(p)
    \/ ConfigFileChanges

SpecConfig == InitConfig /\ [][NextConfig]_vars

\* --------------------------------------------------------- CreateMeeting
\* time.Now().Format("20060102150405") of line 38: the time to the second
FormatTime(t) == ToString(t)

\* a process with an empty store and no session under way
InitCreate ==
    /\ req = [MeetingID |-> MeetingName,
              Host |-> HostName,
              Specialists |-> SubSeq(AllSpecialists, 1, 1),
              Rounds |-> 1]
    /\ stream = FALSE
    /\ pc = "store"
    /\ gpc = "idle"
    /\ hpc = "idle"
    /\ Messages = <<>>
    /\ messagesLock = FALSE
    /\ AgentNameMap = <<>>
    /\ round = 0
    /\ discussionHistory = <<>>
    /\ roundMessages = <<>>
    /\ hostMessages = <<>>
    /\ currentContext = <<>>
    /\ specialistMessages = <<>>
    /\ si = 0
    /\ pending = NoMessage
    /\ pipeData = FALSE
    /\ pipeClosed = FALSE
    /\ attempts = <<>>
    /\ summaryInput = <<>>
    /\ startPos = 0
    /\ result = "none"
    /\ response = NoResponse
    /\ cancelled = FALSE
    /\ faults = 0
    /\ origin = <<>>
    /\ hostFailed = {}
    /\ turnLate = FALSE
    /\ ConfigStart
    /\ StoreStart

\* lines 22-45: the body is bound, the ID made from the clock and the
\* directory made; a body that does not bind or a directory that cannot
\* be made ends the request
CreateMeetingID(r) ==
    /\ mpc[r] = "idle"
    /\ meetingID' = [meetingID EXCEPT ![r] = "meeting_" \o FormatTime(now)]
    /\ \E ok \in BOOLEAN :
          mpc' = [mpc EXCEPT ![r] = IF ok THEN "extract" ELSE "failed"]
    /\ UNCHANGED <<sessionVars, configVars, now, meetings, created>>

\* lines 47-64: the language model extracts the meeting's information
ExtractMeetingInfo(r) ==
    /\ mpc[r] = "extract"
    /\ \E ok \in BOOLEAN :
          mpc' = [mpc EXCEPT ![r] = IF ok THEN "write" ELSE "failed"]
    /\ UNCHANGED <<sessionVars, configVars, now, meetingID, meetings,
                   created>>

\* lines 100-126: the document is written under the ID, whatever is there
\* already, and the ID returned
WriteMeeting(r) ==
    /\ mpc[r] = "write"
    /\ \E ok \in BOOLEAN :
          IF ok
          THEN /\ meetings' = (meetingID[r] :> r) @@ meetings
               /\ created' = Append(created, [r |-> r, ID |-> meetingID[r]])
               /\ mpc' = [mpc EXCEPT ![r] = "done"]
          ELSE /\ mpc' = [mpc EXCEPT ![r] = "failed"]
               /\ UNCHANGED <<meetings, created>>
    /\ UNCHANGED <<sessionVars, configVars, now, meetingID>>

\* a second passes
Tick ==
    /\ now < MaxTime
    /\ now' = now + 1
    /\ UNCHANGED <<sessionVars, configVars, mpc, meetingID, meetings,
                   created>>

NextCreate ==
    \/ \E r \in Requests : CreateMeetingID(r)
    \/ \E r \in Requests : ExtractMeetingInfo(r)
    \/ \E r \in Requests : WriteMeeting(r)
    \/ Tick

SpecCreate == InitCreate /\ [][NextCreate]_vars

\* the same session with a ctx that may be cancelled at any moment
NextCancel == Next \/ Cancel

SpecCancel == Init /\ [][NextCancel]_vars


\* =================================================================
\* Properties
\* =================================================================
Idx == 1..Len(Messages)
K == Len(req.Specialists)
R == req.Rounds
Count(S) == Cardinality(S)
TurnKinds == {"host", "handoff", "spec"}
IsHandoff(m) == m.IsSystem /\ \E n \in {AllSpecialists[x] : x \in DOMAIN AllSpecialists} : m.Content = HandoffContent(n)
IsStart(m) == m = DiscussionMessage(SystemRole, StartContent, TRUE)
IsSummary(m) == m = DiscussionMessage(SystemRole, SummaryContent(SummaryText), TRUE)
AllOk == \A i \in 1..Len(attempts) : attempts[i].ok
Contents(w) == [i \in 1..Len(w) |-> w[i].Content]
InWindow(w, c) == \E i \in 1..Len(w) : w[i].Content = c

\* the entries of Messages with the turn each is of
Paired == [i \in Idx |-> [m |-> Messages[i], o |-> origin[i]]]

\* the non-system entries of round r
RoundEntries(r) ==
    SelectSeq(Paired, LAMBDA p : p.o.round = r /\ p.o.kind \in {"host", "spec"})

\* the specialist turn j of the current round ended in the fallback entry
FailedInRound(j) ==
    \E i \in Idx : /\ origin[i].kind = "spec"
                   /\ origin[i].round = round
                   /\ origin[i].k = j
                   /\ Messages[i].Content = FailContent


\* C1: if the host's Generate fails in round r, the session ends with an
\* error (never with a response) and no handoff or specialist entry of
\* round r or of a later round is stored.
C1_HostFailureIsFatal ==
    \A r \in hostFailed :
        /\ pc # "done"
        /\ \A i \in Idx :
              origin[i].kind \in {"handoff", "spec"} => origin[i].round < r

\* C2: when every host call and the summarizer succeed, the returned
\* transcript has R*(1+K) non-system entries, one start entry, R*K handoff
\* entries and one summary entry, whichever specialist calls failed.
C2_EntryCount ==
    (pc = "done" /\ hostFailed = {}) =>
        /\ Count({i \in Idx : ~Messages[i].IsSystem}) = R * (1 + K)
        /\ Count({i \in Idx : IsStart(Messages[i])}) = 1
        /\ Count({i \in Idx : IsHandoff(Messages[i])}) = R * K
        /\ Count({i \in Idx : IsSummary(Messages[i])}) = 1
        /\ Count({i \in Idx : Messages[i].IsSystem}) = 2 + R * K
        /\ (R = 2 /\ K = 2 => Len(Messages) = 12)

\* a two-round, two-specialist session has returned with a fallback entry
C2_Witness ==
    /\ pc = "done"
    /\ hostFailed = {}
    /\ R = 2 /\ K = 2
    /\ Len(Messages) = 12
    /\ \E i \in Idx : Messages[i].Content = FailContent

\* C3: in a round the host's entry precedes the round's handoff and
\* specialist entries, the specialist entries of a round carry the names of
\* the request's specialists in the request's order, and the entries of a
\* round precede those of the next.
C3_RoundOrder ==
    /\ Len(origin) = Len(Messages)
    /\ \A i, j \in Idx :
          (i < j /\ origin[i].kind \in TurnKinds /\ origin[j].kind \in TurnKinds) =>
              /\ origin[i].round <= origin[j].round
              /\ (origin[i].round = origin[j].round => origin[j].kind # "host")
    /\ \A r \in 0..(R - 1) :
          LET es == RoundEntries(r)
          IN  \A n \in 1..Len(es) :
                 IF n = 1
                 THEN es[n].o.kind = "host" /\ es[n].m.Role = req.Host
                 ELSE /\ es[n].o.kind = "spec"
                      /\ n - 1 <= K
                      /\ es[n].m.Role = req.Specialists[n - 1]

\* a two-round session of two specialists has returned all its entries
C3_Witness ==
    /\ pc = "done"
    /\ R = 2 /\ K = 2
    /\ Len(RoundEntries(0)) = 3
    /\ Len(RoundEntries(1)) = 3

\* C4: when a specialist's call failed in the round, the window of every
\* later specialist of the round holds the host's text of the round and the
\* fallback text recorded for the failed specialist.
C4_FallbackInLaterWindow ==
    gpc = "specGen" =>
        \A j \in 1..(si - 1) :
            FailedInRound(j) =>
                /\ \E i \in Idx : /\ origin[i].kind = "host"
                                  /\ origin[i].round = round
                                  /\ InWindow(specialistMessages, Messages[i].Content)
                /\ \/ InWindow(specialistMessages, FailContent)
                   \/ InWindow(specialistMessages,
                               Attributed(multiAgent.Specialists[j], FailContent))

\* C5: the history handed to the host of a round R > 0 is every
\* non-system entry of the transcript so far, in transcript order.
C5_HostHistoryIsWholeDiscussion ==
    (pc = "round" /\ round > 0) =>
        Contents(discussionHistory)
            = Contents(SelectSeq(Messages, LAMBDA m : ~m.IsSystem))


\* the texts of the prompts, which are no transcript entries
SpecialistNames == {AllSpecialists[x] : x \in DOMAIN AllSpecialists}
PromptTexts ==
    {"host-system-prompt", "host-prompt-first", "host-prompt-next",
     "round-system-prompt:" \o HostName}
    \cup {"specialist-system-prompt:" \o n : n \in SpecialistNames}
    \cup {"invite:" \o n : n \in SpecialistNames}
FallbackTexts ==
    {FailContent} \cup {Attributed(n, FailContent) : n \in SpecialistNames}

\* the part of a window that comes from the transcript, fallbacks aside
Derived(w) ==
    SelectSeq(w, LAMBDA m : m.Content \notin PromptTexts \cup FallbackTexts)

\* C6: the transcript-derived part of the window of the k-th specialist of
\* round R is the host's entry of round R followed by the replies of the
\* specialists 1..k-1 of round R, in order, and nothing of an earlier round.
C6_SpecialistWindowIsRoundOnly ==
    gpc = "specGen" =>
        LET derived == Derived(specialistMessages)
            expected == SelectSeq(RoundEntries(round),
                                  LAMBDA p : p.m.Content # FailContent)
        IN  /\ Len(derived) = Len(expected)
            /\ \A n \in 1..Len(derived) :
                  derived[n].Content \in
                      {expected[n].m.Content,
                       Attributed(expected[n].m.Role, expected[n].m.Content)}

\* C7: once ctx is cancelled no host, handoff or specialist entry is stored
\* for a turn that starts after the cancellation, and the session does not
\* end with a response.
C7_NoTurnAfterCancel ==
    /\ \A i \in Idx : origin[i].kind \in TurnKinds => ~origin[i].late
    /\ (cancelled => pc # "done")

\* the events the subscriber received
Published ==
    LET sent == SelectSeq(attempts, LAMBDA a : a.ok)
    IN  [i \in 1..Len(sent) |-> sent[i].event]

\* C8: with a stream whose Publish never fails, the published events are at
\* every moment a prefix of the transcript, entry for entry: every entry is
\* published as soon as its handler returns and all of them at the end.
C8_PublishedIsTranscriptPrefix ==
    (stream /\ AllOk) =>
        /\ Len(Published) <= Len(Messages)
        /\ \A i \in 1..Len(Published) : Published[i] = Marshal(Messages[i])
        /\ (hpc = "idle" => Len(Published) = Len(Messages))
        /\ (pc = "done" => /\ Len(Published) = Len(Messages)
                           /\ Published[1].content = StartContent
                           /\ Published[Len(Published)] =
                                 Marshal(Messages[Len(Messages)]))

\* a streamed two-round session of two specialists has returned
C8_Witness ==
    /\ stream /\ AllOk
    /\ pc = "done"
    /\ R = 2 /\ K = 2
    /\ Len(Published) = 12
    /\ \E i \in 1..Len(Published) : Published[i].content = HandoffContent("B")

\* C9: after a Publish has failed no later entry is published again.
C9_NoPublishAfterFailure ==
    \A i \in 1..(Len(attempts) - 1) : attempts[i].ok

\* the entries a session stores, by the rounds whose host call failed
RECURSIVE RoundsShape(_)
RoundsShape(r) ==
    IF r >= R THEN <<>>
    ELSE (IF r \in hostFailed THEN <<>>
          ELSE <<<<"host", r, 0>>>>
               \o [p \in 1..(2 * K) |->
                      IF p % 2 = 1 THEN <<"handoff", r, (p + 1) \div 2>>
                      ELSE <<"spec", r, p \div 2>>])
         \o RoundsShape(r + 1)

\* C10: a failed Publish neither aborts the session nor changes the
\* transcript: every entry handed to Publish, failed or not, is stored at
\* its place, the returned transcript is the one fixed by the results of
\* the generation calls alone, and the only errors returned are those of
\* the meeting lookup, the agents' construction and the summarizer.
C10_PublishFailureHarmless ==
    /\ (pc = "done") = (result = "response")
    /\ pc = "error" => result \in {"error: meeting not found",
                                   "error: agent not created",
                                   "error: summary not generated"}
    /\ stream =>
          /\ Len(attempts) <= Len(Messages)
          /\ \A i \in 1..Len(attempts) : attempts[i].event = Marshal(Messages[i])
          /\ (hpc = "idle" => Len(attempts) = Len(Messages))
    /\ pc = "done" =>
          [i \in Idx |-> <<origin[i].kind, origin[i].round, origin[i].k>>]
              = <<<<"start", 0, 0>>>> \o RoundsShape(0)
                \o <<<<"summary", R - 1, 0>>>>

\* a streamed session has returned after a Publish in the middle failed
C10_Witness ==
    /\ stream
    /\ pc = "done"
    /\ R = 2 /\ K = 2
    /\ hostFailed = {}
    /\ Len(Messages) = 12
    /\ \E i \in 1..(Len(attempts) - 1) :
          ~attempts[i].ok /\ origin[i].kind \in {"host", "handoff"}

\* C11: the transcript is append-only.  An entry's sequence is its place in
\* Messages (places are 0, 1, 2, ... without gap or duplicate, the entry has
\* no other sequence field); every step leaves the entries stored so far as
\* they are, in role, content, isSystem and place, and adds at most one.
C11_AppendOnly ==
    [][/\ Len(Messages') \in {Len(Messages), Len(Messages) + 1}
       /\ SubSeq(Messages', 1, Len(Messages)) = Messages
       /\ DOMAIN Messages' = 1..Len(Messages')]_vars

\* a session has stored host, handoff and specialist entries and returned
C11_Witness ==
    /\ pc = "done"
    /\ Len(Messages) >= 5
    /\ \E i \in Idx : origin[i].kind = "spec"

\* C12: no entry with empty or whitespace-only content is ever stored; a
\* blank output of the host or of a specialist is replaced by a fallback.
C12_NoBlankEntry ==
    \A i \in Idx : TrimSpace(Messages[i].Content) # ""

ErrMeeting == "error: meeting not found"
ErrAgent == "error: agent not created"
ErrSummary == "error: summary not generated"

C14_AbortBeforeAnyRound ==
    result \in {ErrMeeting, ErrAgent} =>
        /\ pc = "error"
        /\ gpc = "idle" /\ hpc = "idle"
        /\ round = 0 /\ roundMessages = <<>> /\ summaryInput = <<>>
        /\ hostFailed = {}
        /\ hostMessages = <<>> /\ specialistMessages = <<>>
        /\ currentContext = <<>>
        /\ \A i \in Idx : Messages[i].IsSystem /\ origin[i].kind = "start"
        /\ \A j \in 1..Len(attempts) : attempts[j].event.is_system
        /\ result = ErrMeeting => Messages = <<>> /\ attempts = <<>>

\* a streaming session has stored and published the start entry and then
\* failed to create its agents
C14_Witness ==
    /\ result = ErrAgent
    /\ stream
    /\ Len(Messages) = 1
    /\ Len(attempts) = 1

\* C15: a request whose list of specialists is empty is rejected by the
\* handler of either route with a 400 response, and no session is started
\* for it: the transcript stays empty, nothing is published and no
\* generation call is made.
C15_EmptySpecialistsRejected ==
    Len(req.Specialists) = 0 =>
        /\ pc \in {"handler", "rejected"}
        /\ pc = "rejected" =>
              result \in {BadRequest("body"), BadRequest("meeting_id"),
                          BadRequest("host"), BadRequest("specialists")}
        /\ (pc = "rejected" /\ req.MeetingID # "" /\ req.Host # "") =>
              result \in {BadRequest("body"), BadRequest("specialists")}
        /\ Messages = <<>> /\ attempts = <<>>
        /\ gpc = "idle" /\ hpc = "idle" /\ hostFailed = {}
        /\ round = 0 /\ hostMessages = <<>> /\ specialistMessages = <<>>

\* the streaming route has rejected an otherwise valid request for its
\* empty list of specialists
C15_Witness ==
    /\ stream
    /\ pc = "rejected"
    /\ result = BadRequest("specialists")
    /\ req.MeetingID # "" /\ req.Host # ""
    /\ Len(req.Specialists) = 0

\* the system entries of the transcript
SystemEntries == {Messages[i] : i \in {j \in Idx : Messages[j].IsSystem}}

\* window w carries the content of system entry e, bare or attributed to a
\* speaker
Carries(w, e) ==
    \E i \in 1..Len(w) :
        \/ w[i].Content = e.Content
        \/ \E n \in {HostName, SystemRole} \cup SpecialistNames :
              w[i].Content = Attributed(n, e.Content)

\* C17: no system entry of the transcript (start, handoff, summary) is in
\* a context window built by collectRoundMessages, nor in the messages a
\* round hands to the host or to a specialist, nor in the discussion
\* records handed to the summarizer.
C17_NoSystemEntryInContext ==
    \A e \in SystemEntries :
        /\ ~Carries(discussionHistory, e)
        /\ ~Carries(roundMessages, e)
        /\ ~Carries(hostMessages, e)
        /\ ~Carries(currentContext, e)
        /\ ~Carries(specialistMessages, e)
        /\ \A i \in 1..Len(summaryInput) :
              summaryInput[i] # Attributed(e.Role, e.Content)

\* a session of two rounds is done: a window was collected, a specialist
\* was handed its context and the summarizer its records
C17_Witness ==
    /\ pc = "done"
    /\ Len(discussionHistory) >= 1
    /\ Len(specialistMessages) >= 3
    /\ Len(summaryInput) >= 4
    /\ Count(SystemEntries) >= 4

\* the entries that follow every system entry of the transcript
AfterLastSystem ==
    {i \in Idx : \A j \in i..Len(Messages) : ~Messages[j].IsSystem}

\* C18: the window collected from a transcript is the run of entries after
\* the last system entry, in their order and with their contents, each
\* tagged assistant if and only if its role is the host's name and user
\* otherwise.
C18_WindowRetagged ==
    pc = "collected" =>
        LET w == discussionHistory
            off == Len(Messages) - Len(w)
        IN  /\ Len(w) = Count(AfterLastSystem)
            /\ \A k \in 1..Len(w) :
                  /\ off + k \in AfterLastSystem
                  /\ w[k].Content = Messages[off + k].Content
                  /\ w[k].Role \in {"assistant", "user"}
                  /\ w[k].Role = "assistant" <=> Messages[off + k].Role = req.Host
                  /\ DOMAIN w[k] = {"Role", "Content"}

\* a window with an entry of the host and an entry of a specialist
C18_Witness ==
    /\ pc = "collected"
    /\ \E k \in 1..Len(discussionHistory) :
          discussionHistory[k].Role = "assistant"
    /\ \E k \in 1..Len(discussionHistory) :
          discussionHistory[k].Role = "user"
    /\ Len(Messages) > Len(discussionHistory)

C20_NoPublishUnderLock ==
    [][attempts' # attempts => ~messagesLock]_vars

\* the entries the turns of round r have stored
TurnEntries(r) ==
    {i \in Idx : origin[i].round = r /\ origin[i].kind \in TurnKinds}

\* the goroutine of round r has stored all it stores: nothing if the
\* host's call failed, else the host's entry and a handoff and an entry
\* for each specialist
RoundComplete(r) ==
    Count(TurnEntries(r)) = IF r \in hostFailed THEN 0 ELSE 1 + 2 * K

\* C21: the turns of a session are sequential. A goroutine of
\* MultiAgent.Stream runs only while the orchestrator waits in io.Copy, so
\* no call of the host, of a specialist or of the summarizer overlaps
\* another; and the orchestrator starts the next round, or calls the
\* summarizer, only after the goroutine of the round before has stored
\* its last entry and closed its pipe.
C21_TurnsSequential ==
    /\ pc # "drain" =>
          gpc \in {"idle", "exit"} /\ hpc = "idle" /\ ~messagesLock
    /\ (pc = "round" /\ round > 0) =>
          pipeClosed /\ ~pipeData /\ \A r \in 0..(round - 1) : RoundComplete(r)
    /\ pc \in {"summary", "done"} =>
          pipeClosed /\ ~pipeData /\ \A r \in 0..(R - 1) : RoundComplete(r)
    /\ pc = "drain" => \A r \in 0..(round - 1) : RoundComplete(r)

\* the second round is about to start after a first round in which every
\* turn stored an entry
C21_Witness ==
    /\ pc = "round"
    /\ round = 1
    /\ hostFailed = {}
    /\ Count(TurnEntries(0)) >= 3

\* C22: every failure of a session leaves a trace. The code writes no log,
\* so the trace of a failed host call is an entry stored for that turn or
\* the error returned to the caller, and the trace of a failed Publish is
\* the error returned to the caller: a session that has ended with the
\* response has an entry for every host turn that failed, and none of its
\* calls of Publish failed.
C22_EveryFailureLeavesTrace ==
    pc \in {"done", "error"} =>
        /\ \A r \in hostFailed :
              \/ \E i \in Idx : origin[i].round = r /\ origin[i].kind = "host"
              \/ result # "response"
        /\ \A j \in 1..Len(attempts) :
              ~attempts[j].ok => result # "response"

Terminal == pc \in {"done", "error"}

\* C23: when every external call returns, every session reaches a terminal
\* state, the result or an error: the goroutine of a round has closed its
\* pipe whenever it has exited, what it writes to the pipe is read, and the
\* orchestrator's copy of the pipe returns.
C23_SessionTerminates ==
    /\ [](gpc = "exit" => pipeClosed)
    /\ pipeData ~> ~pipeData
    /\ (pc = "drain") ~> (pc # "drain")
    /\ <>Terminal
    /\ [](Terminal => result # "none")

\* a session has ended after a round whose host call failed and a round
\* in which a specialist's call failed, both written to the pipe
C23_Witness ==
    /\ pc = "done"
    /\ hostFailed # {}
    /\ \E i \in Idx : Messages[i].Content = FailContent
    /\ pipeClosed

\* entry i is an entry of a specialist: not a system entry, not the host's
IsSpecialistEntry(i) == ~Messages[i].IsSystem /\ Messages[i].Role # req.Host

\* the goroutine is between the handoff to a specialist and the return of
\* the handler that stores the specialist's entry
InSpecialistTurn ==
    gpc \in {"handoff", "specGen", "specErr", "failMsg", "specMsg"}

\* C24: every entry of a specialist, reply or fallback, comes right after
\* the handoff entry that names that specialist; and a handoff entry is
\* followed by one entry of the specialist it names and then by no other
\* entry of a specialist, and is the last entry only while that
\* specialist's turn is under way.
C24_HandoffThenSpecialist ==
    /\ \A i \in Idx :
          IsSpecialistEntry(i) =>
              /\ i > 1
              /\ Messages[i].Role \in SpecialistNames
              /\ Messages[i - 1] =
                    DiscussionMessage(SystemRole,
                                      HandoffContent(Messages[i].Role), TRUE)
    /\ \A i \in Idx :
          IsHandoff(Messages[i]) =>
              /\ i < Len(Messages) =>
                    /\ IsSpecialistEntry(i + 1)
                    /\ Messages[i].Content = HandoffContent(Messages[i + 1].Role)
              /\ i + 1 < Len(Messages) => ~IsSpecialistEntry(i + 2)
              /\ i = Len(Messages) => InSpecialistTurn

\* a finished session in which a handoff was followed by a fallback entry
\* and another by a reply
C24_Witness ==
    /\ pc = "done"
    /\ \E i \in Idx : IsSpecialistEntry(i) /\ Messages[i].Content = FailContent
    /\ \E i \in Idx : IsSpecialistEntry(i) /\ Messages[i].Content # FailContent
    /\ Count({i \in Idx : IsHandoff(Messages[i])}) >= 2

\* the non-system entries of transcript t, each as "role: content"
NonSystemText(t) ==
    LET kept == SelectSeq(t, LAMBDA m : ~m.IsSystem)
    IN  [i \in 1..Len(kept) |-> kept[i].Role \o ": " \o kept[i].Content]

\* C25: the response of a session that returned one holds the transcript,
\* whose first entry is the start entry and whose last is the summary
\* entry, with no other start or summary entry; its Summary is the text the
\* summarizer returned, which is also the text of the summary entry; and
\* the summarizer was given every non-system entry of that transcript, in
\* the transcript's order. A session that returned an error has no response.
C25_ResponseShape ==
    /\ result = "response" =>
          LET t == response.Messages
          IN  /\ t = Messages
              /\ Len(t) >= 2
              /\ {i \in 1..Len(t) : IsStart(t[i])} = {1}
              /\ {i \in 1..Len(t) : IsSummary(t[i])} = {Len(t)}
              /\ response.Summary = SummaryText
              /\ t[Len(t)].Content = SummaryContent(response.Summary)
              /\ summaryInput = NonSystemText(t)
    /\ result # "response" => response = NoResponse

\* a session of two rounds has returned its response
C25_Witness ==
    /\ result = "response"
    /\ Len(response.Messages) >= 8
    /\ Len(summaryInput) >= 4
    /\ response.Summary # ""

\* the orchestrator takes a step that reads or writes cb.Messages without
\* the lock: the start entry (line 269), collectRoundMessages (line 344),
\* the summarizer's input, the summary entry and the response (348-372)
UnlockedAccess ==
    \/ pc = "start" /\ pc' # "start"
    \/ pc = "drain" /\ pc' = "round"
    \/ pc = "summary" /\ pc' # "summary"

\* no goroutine of MultiAgent.Stream is running, none is inside a handler
GoroutineQuiet == gpc \in {"idle", "exit"} /\ hpc = "idle" /\ ~messagesLock

\* C26: the orchestrator reads and writes the transcript without the lock
\* only while no goroutine of a round is running, so none of these
\* accesses overlaps an append of OnAgentMessage or OnAgentHandoff; and
\* while a goroutine runs the orchestrator leaves the transcript alone.
C26_UnlockedAccessAlone ==
    [][/\ UnlockedAccess => GoroutineQuiet
       /\ (~GoroutineQuiet /\ Messages' # Messages) => messagesLock']_vars

\* after a first round with a failed specialist call the orchestrator has
\* collected the history and gone through the second round
C26_Witness ==
    /\ pc = "summary"
    /\ round = 1
    /\ discussionHistory # <<>>
    /\ \E i \in Idx : Messages[i].Content = FailContent /\ origin[i].round = 0

\* a[i..] is a subsequence of t[j..], positions strictly increasing
RECURSIVE IsSubseqFrom(_, _, _, _)
IsSubseqFrom(a, i, t, j) ==
    IF i > Len(a) THEN TRUE
    ELSE IF j > Len(t) THEN FALSE
    ELSE IF a[i] = t[j] THEN IsSubseqFrom(a, i + 1, t, j + 1)
    ELSE IsSubseqFrom(a, i, t, j + 1)

IsSubseq(a, t) == IsSubseqFrom(a, 1, t, 1)

\* the transcript as events
TranscriptEvents ==
    [i \in Idx |-> [role |-> Messages[i].Role,
                    content |-> Messages[i].Content,
                    is_system |-> Messages[i].IsSystem]]

AttemptedEvents == [j \in 1..Len(attempts) |-> attempts[j].event]

\* C27: an event is published only for an entry that is already stored:
\* the event a step publishes is that of the last entry of the transcript
\* as the step leaves it; no entry is published twice: the events sent are,
\* in order, events of distinct entries of the transcript in transcript
\* order; and whichever calls of Publish fail, the events that got through
\* are an order-preserving subsequence of the transcript.
C27_PublishAfterStore ==
    /\ [](IsSubseq(AttemptedEvents, TranscriptEvents))
    /\ [](IsSubseq(Published, TranscriptEvents))
    /\ [](Len(attempts) <= Len(Messages))
    /\ [][Len(attempts') > Len(attempts) =>
             /\ Len(attempts') = Len(attempts) + 1
             /\ Len(Messages') >= 1
             /\ attempts'[Len(attempts')].event.content =
                   Messages'[Len(Messages')].Content
             /\ attempts'[Len(attempts')].event.role =
                   Messages'[Len(Messages')].Role]_vars

\* a streaming session is done; a Publish failed and a later one got through
C27_Witness ==
    /\ stream
    /\ pc = "done"
    /\ \E j \in 1..Len(attempts) :
          /\ ~attempts[j].ok
          /\ \E k \in (j + 1)..Len(attempts) : attempts[k].ok
    /\ Len(Published) >= 3
    /\ Len(Published) < Len(Messages)

\* C28: every non-system entry has for its role the name of the agent
\* whose turn stored it: the host's name for the host's turn, and for the
\* turn of the k-th specialist that specialist's name, for a reply, a
\* replaced blank reply and a fallback alike; the name left in the name
\* map by the speaker before is never used.
C28_RoleIsSpeaker ==
    \A i \in Idx :
        /\ origin[i].kind = "host" =>
              ~Messages[i].IsSystem /\ Messages[i].Role = req.Host
        /\ origin[i].kind = "spec" =>
              /\ ~Messages[i].IsSystem
              /\ Messages[i].Role = req.Specialists[origin[i].k]
        /\ ~Messages[i].IsSystem => origin[i].kind \in {"host", "spec"}

\* a finished session of two rounds: the host spoke after a specialist,
\* and the second specialist's fallback follows the first one's reply
C28_Witness ==
    /\ pc = "done"
    /\ \E i \in Idx : origin[i].kind = "host" /\ origin[i].round = 1
    /\ \E i \in Idx : /\ origin[i].kind = "spec" /\ origin[i].k = 2
                      /\ Messages[i].Content = FailContent
    /\ \E i \in Idx : /\ origin[i].kind = "spec" /\ origin[i].k = 1
                      /\ Messages[i].Content = NoSupplement(req.Specialists[1])

\* the calls that have returned
Returns == 1..Len(returns)

\* C29: the configuration is loaded at most once in a process. The file
\* is read at most once; once the first load is done the package
\* variables never change; and all calls of LoadConfig, GetARKAPIKey and
\* GetARKModelName, by whichever goroutine and whatever became of the file
\* since, return the same error, the same configuration, and the key and
\* the model name of that configuration.
C29_ConfigLoadedOnce ==
    /\ [](reads <= 1)
    /\ [][configOnce = "done" =>
             /\ configOnce' = "done"
             /\ config' = config
             /\ configErr' = configErr
             /\ reads' = reads]_vars
    /\ [](\A i, j \in Returns :
             /\ returns[i].ret.err = returns[j].ret.err
             /\ returns[i].fn = returns[j].fn =>
                   returns[i].ret = returns[j].ret
             /\ (returns[i].fn = "LoadConfig" /\ returns[i].ret.err = "") =>
                   /\ ~returns[i].ret.val.nil
                   /\ returns[j].fn = "GetARKAPIKey" =>
                         returns[j].ret.val = returns[i].ret.val.APIKey
                   /\ returns[j].fn = "GetARKModelName" =>
                         returns[j].ret.val = returns[i].ret.val.ModelName
             /\ (returns[i].fn = "LoadConfig" /\ returns[i].ret.err # "") =>
                   returns[i].ret.val.nil)
    /\ [](returns # <<>> => configOnce = "done" /\ reads = 1)

\* two goroutines have had the key of the first load, though the file
\* has become unreadable since
C29_Witness ==
    /\ Len(returns) >= 2
    /\ returns[1].p # returns[2].p
    /\ returns[1].fn = "GetARKAPIKey"
    /\ returns[2].ret.err = ""
    /\ configFile.kind = "unreadable"

\* C30: any two successful CreateMeeting requests have returned different
\* meeting IDs, and the document of each is still the one stored under
\* its ID.
C30_DistinctMeetingIDs ==
    /\ \A i, j \in 1..Len(created) :
          i # j => created[i].ID # created[j].ID
    /\ \A i \in 1..Len(created) :
          /\ created[i].ID \in DOMAIN meetings
          /\ meetings[created[i].ID] = created[i].r

====
